---- MODULE Spec2Model ----
(***************************************************************************)
(* Processing task orchestrator of instacut.                               *)
(*                                                                         *)
(* These parts of the backend are modelled, each with its own             *)
(* specification:                                                          *)
(*   Spec           the task lifecycle of the two FastAPI servers          *)
(*                  main_advanced.py and main_advanced_noredis.py          *)
(*                  (task store, background coroutine, WebSocket pushes,   *)
(*                  status queries);                                       *)
(*   SpecSelection  AIServiceOrchestrator.select_best_model of             *)
(*                  ai_services.py, as a function of the registry;         *)
(*   SpecRouting    AIServiceOrchestrator._get_optimal_service of          *)
(*                  app/core/ai_services.py with its metrics;              *)
(*   SpecProcessImage  one process_image request of ai_services.py and     *)
(*                  of modular_ai_services.py;                             *)
(*   SpecSubscribers  the task lifecycle with several websockets opened    *)
(*                  for one task id.                                       *)
(*                                                                         *)
(* Both servers run their handlers and background tasks as coroutines of   *)
(* one asyncio event loop: the code between two awaits that really         *)
(* suspend is atomic.  The variable running names the background           *)
(* coroutine that holds the loop (0: the loop is free).                    *)
(* Timestamps (created_at, updated_at, completed_at) are left out of the   *)
(* task records: no modelled decision reads them.                          *)
(***************************************************************************)
EXTENDS Integers, Sequences, FiniteSets, TLC

MaxTasks == 2
MaxSockets == 1

TaskIds == 1..MaxTasks
SocketIds == 1..MaxSockets

Servers == {"main_advanced", "main_advanced_noredis"}

VARIABLES
    server,              \* which of the two programs was started
    task_storage,        \* main_advanced.py: task_id -> ProcessingStatus
    active_connections,  \* main_advanced.py: WebSocketManager.active_connections
    tasks,               \* main_advanced_noredis.py: task_id -> dict
    connections,         \* main_advanced_noredis.py: task_id -> WebSocket
    pc,                  \* position of each task's background coroutine
    running,             \* background coroutine holding the event loop, 0 if none
    ws_task,             \* task id each websocket endpoint was opened for
    ws_state,            \* "idle", "open", "gone" (peer left), "closed"
    last_push,           \* the websocket message sent by the step just taken, if any
    response,            \* the HTTP response given by the step just taken, if any
    available_models,    \* ai_services.py: AIServiceOrchestrator.available_models
    selection,           \* the select_best_model call at hand and its result
    healthy,             \* app/core: what the services' health checks answer now
    performance_metrics, \* app/core: service path -> total_time, operation_count
    routed,              \* the _get_optimal_service call of the step just taken, if any
    orchestrator,        \* which process_image serves the request
    job,                 \* the request: operation and model asked for
    installed,           \* the optional libraries whose import succeeds
    broken,              \* the modules whose constructor raises
    ppc,                 \* position of the process_image coroutine
    selected_model,      \* ai_services.py: what select_best_model returned
    attempts,            \* the attempts of the request so far, in order
    executor,            \* the function handed to a thread of the executor
    output_file,         \* who wrote the output path last, "None" if nobody
    process_result       \* the dict process_image returned, NoResult before

lifecycleVars == <<server, task_storage, active_connections, tasks, connections,
                   pc, running, ws_task, ws_state, last_push, response>>
selectionVars == <<available_models, selection>>
routingVars == <<healthy, performance_metrics, routed>>
processVars == <<orchestrator, job, installed, broken, ppc, selected_model, attempts,
                 executor, output_file, process_result>>
vars == <<server, task_storage, active_connections, tasks, connections,
          pc, running, ws_task, ws_state, last_push, response,
          available_models, selection, healthy, performance_metrics, routed,
          orchestrator, job, installed, broken, ppc, selected_model, attempts,
          executor, output_file, process_result>>

(***************************************************************************)
(* Task records.  One record shape serves both servers; a field that a     *)
(* server's record type does not have stays "None".                        *)
(***************************************************************************)
Rec(status, progress, message, result, result_url, error, processing_time) ==
    [status |-> status, progress |-> progress, message |-> message,
     result |-> result, result_url |-> result_url, error |-> error,
     processing_time |-> processing_time]

NoRec == Rec("None", -1, "None", "None", "None", "None", "None")

EmptyStore == [t \in {} |-> NoRec]

NoConnections == [t \in TaskIds |-> 0]

NoPush == [socket |-> 0, task |-> 0, body |-> NoRec]

NoResponse == [kind |-> "none", task_id |-> 0, status |-> "None", body |-> NoRec]

\* main_advanced.py: the ProcessingStatus built by process_image_advanced
QueuedStatus == Rec("queued", 0, "Task queued for processing", "None", "None", "None", "None")

\* main_advanced_noredis.py: the dict built by enhance_image
QueuedTask == Rec("queued", 0, "Task queued for processing", "None", "None", "None", "None")

(***************************************************************************)
(* The store of the server that runs.                                      *)
(***************************************************************************)
Store == IF server = "main_advanced" THEN task_storage ELSE tasks

Connected(t) ==
    IF server = "main_advanced" THEN active_connections[t] ELSE connections[t]

Push(s, t, body) == [socket |-> s, task |-> t, body |-> body]

(***************************************************************************)
(* main_advanced.py                                                        *)
(***************************************************************************)
\* A progress callback that writes to every stored task instead of its own.
progress_callback_every_task(store, t, progress, message) ==
    [u \in DOMAIN store |-> [store[u] EXCEPT !.progress = progress,
                                            !.message = message,
                                            !.status = "processing"]]

\* process_image_background.progress_callback, the store it leaves
adv_progress_callback(store, t, progress, message) ==
    IF t \in DOMAIN store
    THEN [store EXCEPT ![t] = [@ EXCEPT !.progress = progress,
                                        !.message = message,
                                        !.status = "processing"]]
    ELSE store

\* the final update of the success path
adv_completed(rec) ==
    [rec EXCEPT !.status = "completed",
                !.progress = 100,
                !.message = "Processing completed successfully",
                !.result_url = "/api/v2/download/{task_id}",
                !.processing_time = "processing_time"]

\* An except branch that records the error and forgets the status.
failed_without_status(rec, error_msg) ==
    [rec EXCEPT !.error = error_msg,
                !.message = "Processing failed"]

\* the update of the except branch
adv_failed(rec, error_msg) ==
    [rec EXCEPT !.status = "failed",
                !.error = error_msg,
                !.message = "Processing failed"]

\* WebSocketManager.send_update: a send over a socket whose peer has left
\* raises, and the except branch disconnects the task id.
send_update(t, status) ==
    IF active_connections[t] = 0
    THEN /\ last_push' = NoPush
         /\ UNCHANGED active_connections
    ELSE IF ws_state[active_connections[t]] = "open"
         THEN /\ last_push' = Push(active_connections[t], t, status)
              /\ UNCHANGED active_connections
         ELSE /\ active_connections' = [active_connections EXCEPT ![t] = 0]
              /\ last_push' = NoPush

\* The event loop runs one coroutine at a time: a background task takes a
\* step when the loop is free or when it is the one that holds it.
MyTurn(t) == running \in {0, t}

\* After an awaited send the coroutine has yielded to the loop only if there
\* was a socket to send to; without one it runs on.
AfterSend(t, conn) == IF conn[t] = 0 THEN t ELSE 0

AdvUnchanged ==
    /\ response' = NoResponse
    /\ UNCHANGED <<server, tasks, connections, ws_task, ws_state,
                   selectionVars, routingVars, processVars>>

\* one await progress_callback(progress, message) of the background task
AdvProgress(t, progress, message, next) ==
    /\ task_storage' = adv_progress_callback(task_storage, t, progress, message)
    /\ send_update(t, task_storage'[t])
    /\ running' = AfterSend(t, active_connections)
    /\ pc' = [pc EXCEPT ![t] = next]
    /\ AdvUnchanged

\* the except branch of process_image_background; the coroutine ends
AdvFail(t, error_msg) ==
    /\ task_storage' = [task_storage EXCEPT ![t] = adv_failed(@, error_msg)]
    /\ send_update(t, task_storage'[t])
    /\ running' = 0
    /\ pc' = [pc EXCEPT ![t] = "done"]
    /\ AdvUnchanged

\* await progress_callback(5, "Starting processing...")
AdvStart(t) ==
    /\ server = "main_advanced" /\ pc[t] = "scheduled" /\ MyTurn(t)
    /\ AdvProgress(t, 5, "Starting processing...", "cb5")

\* process_image_advanced: await progress_callback(10, ...)
AdvInitialize(t) ==
    /\ server = "main_advanced" /\ pc[t] = "cb5" /\ MyTurn(t)
    /\ AdvProgress(t, 10, "Initializing processing...", "cb10")

\* ensure_model_available answers True, then progress_callback(20, ...)
AdvModelReady(t) ==
    /\ server = "main_advanced" /\ pc[t] = "cb10" /\ MyTurn(t)
    /\ AdvProgress(t, 20, "Loading AI model...", "cb20")

\* ensure_model_available answers False (the download failed): the raise
\* reaches the except branch of process_image_background
AdvModelMissing(t) ==
    /\ server = "main_advanced" /\ pc[t] = "cb10" /\ MyTurn(t)
    /\ AdvFail(t, "Model not available")

\* progress_callback(40, ...), then the coroutine awaits the executor
AdvProcess(t) ==
    /\ server = "main_advanced" /\ pc[t] = "cb20" /\ MyTurn(t)
    /\ task_storage' = adv_progress_callback(task_storage, t, 40, "Processing with AI model...")
    /\ send_update(t, task_storage'[t])
    /\ running' = 0
    /\ pc' = [pc EXCEPT ![t] = "executing"]
    /\ AdvUnchanged

\* process_sync returned in time, then progress_callback(90, ...)
AdvExecutorDone(t) ==
    /\ server = "main_advanced" /\ pc[t] = "executing" /\ MyTurn(t)
    /\ AdvProgress(t, 90, "Finalizing output...", "cb90")

\* process_sync raised, or wait_for ran into its timeout
AdvExecutorFailed(t) ==
    /\ server = "main_advanced" /\ pc[t] = "executing" /\ MyTurn(t)
    /\ \E error_msg \in {"Real-ESRGAN processing failed", "TimeoutError"} :
          AdvFail(t, error_msg)

\* the final status update of the try block; the coroutine ends
AdvComplete(t) ==
    /\ server = "main_advanced" /\ pc[t] = "cb90" /\ MyTurn(t)
    /\ task_storage' = [task_storage EXCEPT ![t] = adv_completed(@)]
    /\ send_update(t, task_storage'[t])
    /\ running' = 0
    /\ pc' = [pc EXCEPT ![t] = "done"]
    /\ AdvUnchanged

(***************************************************************************)
(* main_advanced_noredis.py                                                *)
(***************************************************************************)
\* background_process_image.progress_callback, the store it leaves: the
\* status key is not written
nr_progress_callback(store, t, progress, message) ==
    IF t \in DOMAIN store
    THEN [store EXCEPT ![t] = [@ EXCEPT !.progress = progress,
                                        !.message = message]]
    ELSE store

\* the message progress_callback sends
nr_progress_message(progress, message) ==
    Rec(IF progress < 100 THEN "processing" ELSE "completed",
        progress, message, "None", "None", "None", "None")

\* the update of the success path
nr_completed(rec) ==
    [rec EXCEPT !.status = "completed",
                !.progress = 100,
                !.result = "result",
                !.result_url = "/processed/{output_path.name}"]

\* the final message of the success path
nr_completed_message ==
    Rec("completed", 100, "Processing complete!", "result",
        "/processed/{output_path.name}", "None", "None")

\* the update of the except branch
nr_error(rec, e) == [rec EXCEPT !.status = "error", !.error = e]

\* the message of the except branch: no progress, no message
nr_error_message(e) == Rec("error", -1, "None", "None", "None", e, "None")

\* a send_json inside try/except; prune says whether the except branch
\* deletes the connection (progress_callback) or passes (final messages)
nr_send(t, body, prune) ==
    IF connections[t] = 0
    THEN /\ last_push' = NoPush
         /\ UNCHANGED connections
    ELSE IF ws_state[connections[t]] = "open"
         THEN /\ last_push' = Push(connections[t], t, body)
              /\ UNCHANGED connections
         ELSE /\ connections' = IF prune THEN [connections EXCEPT ![t] = 0]
                                ELSE connections
              /\ last_push' = NoPush

NrUnchanged ==
    /\ response' = NoResponse
    /\ UNCHANGED <<server, task_storage, active_connections, ws_task, ws_state,
                   selectionVars, routingVars, processVars>>

\* one await progress_callback(progress, message) of process_image
NrProgress(t, progress, message, next) ==
    /\ tasks' = nr_progress_callback(tasks, t, progress, message)
    /\ nr_send(t, nr_progress_message(progress, message), TRUE)
    /\ running' = AfterSend(t, connections)
    /\ pc' = [pc EXCEPT ![t] = next]
    /\ NrUnchanged

\* the except branch of process_image: progress_callback(0, "Error: ..."),
\* then HTTPException is raised to background_process_image
NrRaise(t) == NrProgress(t, 0, "Error", "raising")

\* cv2.imread and image.shape, then progress_callback(10, ...)
NrImageLoaded(t) ==
    /\ server = "main_advanced_noredis" /\ pc[t] = "scheduled" /\ MyTurn(t)
    /\ NrProgress(t, 10, "Image loaded, starting enhancement...", "cb10")

\* cv2.imread answered None: image.shape raises
NrImageUnreadable(t) ==
    /\ server = "main_advanced_noredis" /\ pc[t] = "scheduled" /\ MyTurn(t)
    /\ NrRaise(t)

\* get_model, then progress_callback(30, ...)
NrModelLoaded(t) ==
    /\ server = "main_advanced_noredis" /\ pc[t] = "cb10" /\ MyTurn(t)
    /\ NrProgress(t, 30, "Model loaded, enhancing image...", "cb30")

\* get_model raised (the weights could not be loaded)
NrModelFailed(t) ==
    /\ server = "main_advanced_noredis" /\ pc[t] = "cb10" /\ MyTurn(t)
    /\ NrRaise(t)

\* upsampler.enhance, then progress_callback(70, ...)
NrEnhanced(t) ==
    /\ server = "main_advanced_noredis" /\ pc[t] = "cb30" /\ MyTurn(t)
    /\ NrProgress(t, 70, "Enhancement complete, applying face restoration...", "cb70")

\* upsampler.enhance raised
NrEnhanceFailed(t) ==
    /\ server = "main_advanced_noredis" /\ pc[t] = "cb30" /\ MyTurn(t)
    /\ NrRaise(t)

\* face enhancement (its failure is logged and swallowed), then
\* progress_callback(90, ...)
NrFaceDone(t) ==
    /\ server = "main_advanced_noredis" /\ pc[t] = "cb70" /\ MyTurn(t)
    /\ NrProgress(t, 90, "Saving enhanced image...", "cb90")

\* cv2.imwrite and output_path.stat(), then progress_callback(100, ...)
NrSaved(t) ==
    /\ server = "main_advanced_noredis" /\ pc[t] = "cb90" /\ MyTurn(t)
    /\ NrProgress(t, 100, "Processing complete!", "cb100")

\* the output was not written: output_path.stat() raises
NrSaveFailed(t) ==
    /\ server = "main_advanced_noredis" /\ pc[t] = "cb90" /\ MyTurn(t)
    /\ NrRaise(t)

\* process_image returned: the final update and message; the coroutine ends
NrComplete(t) ==
    /\ server = "main_advanced_noredis" /\ pc[t] = "cb100" /\ MyTurn(t)
    /\ tasks' = IF t \in DOMAIN tasks
                THEN [tasks EXCEPT ![t] = nr_completed(@)] ELSE tasks
    /\ nr_send(t, nr_completed_message, FALSE)
    /\ running' = 0
    /\ pc' = [pc EXCEPT ![t] = "done"]
    /\ NrUnchanged

\* the except branch of background_process_image; the coroutine ends
NrFail(t) ==
    /\ server = "main_advanced_noredis" /\ pc[t] = "raising" /\ MyTurn(t)
    /\ tasks' = IF t \in DOMAIN tasks
                THEN [tasks EXCEPT ![t] = nr_error(@, "HTTPException")] ELSE tasks
    /\ nr_send(t, nr_error_message("HTTPException"), FALSE)
    /\ running' = 0
    /\ pc' = [pc EXCEPT ![t] = "done"]
    /\ NrUnchanged

(***************************************************************************)
(* Request handlers of both servers.  A handler runs when the event loop   *)
(* is free.                                                                *)
(***************************************************************************)
\* uuid4 task ids are fresh: ids are handed out in order
FreshTaskId(t) ==
    /\ t \notin DOMAIN Store
    /\ \A u \in TaskIds : u < t => u \in DOMAIN Store

\* the record a submission stores: process_image_advanced (main_advanced.py)
\* and enhance_image (main_advanced_noredis.py)
SubmittedRecord == IF server = "main_advanced" THEN QueuedStatus ELSE QueuedTask

\* A submission that awaits the background coroutine instead of scheduling it.
AwaitedPc == "done"

\* where the background coroutine of a task stands when the endpoint returns:
\* background_tasks.add_task only schedules it
SubmittedPc == "scheduled"

\* POST /api/v2/process and POST /api/v1/enhance
Submit(t) ==
    /\ running = 0
    /\ pc[t] = "none"
    /\ FreshTaskId(t)
    /\ IF server = "main_advanced"
       THEN /\ task_storage' = (t :> SubmittedRecord) @@ task_storage
            /\ UNCHANGED tasks
       ELSE /\ tasks' = (t :> SubmittedRecord) @@ tasks
            /\ UNCHANGED task_storage
    /\ pc' = [pc EXCEPT ![t] = SubmittedPc]
    /\ response' = [kind |-> "submitted", task_id |-> t, status |-> "queued",
                    body |-> NoRec]
    /\ last_push' = NoPush
    /\ UNCHANGED <<server, active_connections, connections, running,
                   ws_task, ws_state, selectionVars, routingVars, processVars>>

\* A status query that takes the record out of the store (pop for get).
get_task_status_popping(store, t) ==
    [store |-> [u \in DOMAIN store \ {t} |-> store[u]],
     response |-> IF t \in DOMAIN store
                  THEN [kind |-> "status", task_id |-> t,
                        status |-> store[t].status, body |-> store[t]]
                  ELSE [kind |-> "not_found", task_id |-> t,
                        status |-> "None", body |-> NoRec]]

\* get_task_status of both servers: the store it leaves and what it answers
get_task_status(store, t) ==
    [store |-> store,
     response |-> IF t \in DOMAIN store
                  THEN [kind |-> "status", task_id |-> t,
                        status |-> store[t].status, body |-> store[t]]
                  ELSE [kind |-> "not_found", task_id |-> t,
                        status |-> "None", body |-> NoRec]]

\* GET /api/v2/status/{task_id} and GET /api/v1/task/{task_id}
GetStatus(t) ==
    /\ running = 0
    /\ IF server = "main_advanced"
       THEN /\ task_storage' = get_task_status(task_storage, t).store
            /\ response' = get_task_status(task_storage, t).response
            /\ UNCHANGED tasks
       ELSE /\ tasks' = get_task_status(tasks, t).store
            /\ response' = get_task_status(tasks, t).response
            /\ UNCHANGED task_storage
    /\ last_push' = NoPush
    /\ UNCHANGED <<server, active_connections, connections, pc, running,
                   ws_task, ws_state, selectionVars, routingVars, processVars>>

\* websocket ids are handed out in order
FreshSocket(s) ==
    /\ ws_state[s] = "idle"
    /\ \A u \in DOMAIN ws_state : u < s => ws_state[u] # "idle"

\* main_advanced_noredis.py websocket_endpoint: the first message
nr_status_message(rec) ==
    Rec(rec.status, rec.progress, rec.message, "None", "None", "None", "None")

\* websocket_endpoint of both servers up to its receive loop: the socket is
\* registered under the task id (replacing any socket registered before) and
\* the current status is sent if the task exists
WsConnect(s, t) ==
    /\ running = 0
    /\ FreshSocket(s)
    /\ ws_state' = [ws_state EXCEPT ![s] = "open"]
    /\ ws_task' = [ws_task EXCEPT ![s] = t]
    /\ IF server = "main_advanced"
       THEN /\ active_connections' = [active_connections EXCEPT ![t] = s]
            /\ last_push' = IF t \in DOMAIN task_storage
                            THEN Push(s, t, task_storage[t]) ELSE NoPush
            /\ UNCHANGED connections
       ELSE /\ connections' = [connections EXCEPT ![t] = s]
            /\ last_push' = IF t \in DOMAIN tasks
                            THEN Push(s, t, nr_status_message(tasks[t]))
                            ELSE NoPush
            /\ UNCHANGED active_connections
    /\ response' = NoResponse
    /\ UNCHANGED <<server, task_storage, tasks, pc, running,
                   selectionVars, routingVars, processVars>>

\* the peer of an open websocket goes away
WsPeerLeaves(s) ==
    /\ ws_state[s] = "open"
    /\ ws_state' = [ws_state EXCEPT ![s] = "gone"]
    /\ last_push' = NoPush
    /\ response' = NoResponse
    /\ UNCHANGED <<server, task_storage, active_connections, tasks, connections,
                   pc, running, ws_task, selectionVars, routingVars, processVars>>

\* receive_text raises in the endpoint of a socket whose peer left:
\* WebSocketManager.disconnect(task_id) in main_advanced.py, the finally
\* branch in main_advanced_noredis.py; both delete whatever is registered
\* under the task id
WsEndpointExit(s) ==
    /\ running = 0
    /\ ws_state[s] = "gone"
    /\ ws_state' = [ws_state EXCEPT ![s] = "closed"]
    /\ IF server = "main_advanced"
       THEN /\ active_connections' = [active_connections EXCEPT ![ws_task[s]] = 0]
            /\ UNCHANGED connections
       ELSE /\ connections' = [connections EXCEPT ![ws_task[s]] = 0]
            /\ UNCHANGED active_connections
    /\ last_push' = NoPush
    /\ response' = NoResponse
    /\ UNCHANGED <<server, task_storage, tasks, pc, running, ws_task,
                   selectionVars, routingVars, processVars>>

(***************************************************************************)
(* ai_services.py: the model registry and select_best_model.               *)
(*                                                                         *)
(* cost and quality are kept in hundredths and speed in tenths, so that    *)
(* the score quality*100 - cost*50 - speed*2 is an integer when taken      *)
(* times ten.                                                              *)
(***************************************************************************)
\* the categories of available_models, in insertion order
CategoryOrder == <<"background_removal", "upscaling", "generation">>

\* the models of each category, in insertion order
CategoryModels(category) ==
    CASE category = "background_removal" -> <<"rembg", "remove_bg_api">>
      [] category = "upscaling" ->
             <<"realesrgan_2x", "realesrgan_4x", "realesrgan_8x",
               "realesrgan_anime", "realesrgan_face">>
      [] category = "generation" -> <<"stable_diffusion", "dalle_3">>
      [] OTHER -> <<>>

Range(seq) == {seq[i] : i \in 1..Len(seq)}

Categories == Range(CategoryOrder)

ModelNames == UNION {Range(CategoryModels(c)) : c \in Categories}

Config(cost, speed, quality, available) ==
    [cost |-> cost, speed |-> speed, quality |-> quality, available |-> available]

\* AIServiceOrchestrator.__init__: the registry as written in the source
SourceRegistry ==
    [m \in ModelNames |->
        CASE m = "rembg"            -> Config(2, 25, 90, TRUE)
          [] m = "remove_bg_api"    -> Config(15, 35, 85, FALSE)
          [] m = "realesrgan_2x"    -> Config(3, 32, 92, TRUE)
          [] m = "realesrgan_4x"    -> Config(5, 58, 90, TRUE)
          [] m = "realesrgan_8x"    -> Config(8, 125, 88, TRUE)
          [] m = "realesrgan_anime" -> Config(6, 62, 94, TRUE)
          [] m = "realesrgan_face"  -> Config(7, 71, 96, TRUE)
          [] m = "stable_diffusion" -> Config(12, 85, 85, FALSE)
          [] m = "dalle_3"          -> Config(40, 152, 95, FALSE)]

\* select_best_model: operation_mapping.get(operation)
operation_mapping(operation) ==
    CASE operation = "remove_background" -> "background_removal"
      [] operation = "background_removal" -> "background_removal"
      [] operation = "upscale" -> "upscaling"
      [] operation = "upscaling" -> "upscaling"
      [] operation = "upscale_2x" -> "upscaling"
      [] operation = "upscale_4x" -> "upscaling"
      [] operation = "generate" -> "generation"
      [] OTHER -> "None"

\* _get_model_category
get_model_category(model) ==
    IF \E c \in Categories : model \in Range(CategoryModels(c))
    THEN CHOOSE c \in Categories : model \in Range(CategoryModels(c))
    ELSE "unknown"

\* An availability test that answers False for every model.
model_never_available(registry, model) == FALSE

\* _is_model_available
is_model_available(registry, model) ==
    IF model \in ModelNames THEN registry[model].available ELSE FALSE

\* the score of select_best_model, times ten
Score(config) == config.quality * 10 - config.cost * 5 - config.speed * 2

\* A comparison that lets a later candidate of equal score replace the best.
BetterOrEqual(score, best_score) == score >= best_score

\* the comparison of the selection loop: a later candidate replaces the best
\* one so far only with a strictly higher score
Better(score, best_score) == score > best_score

\* the loop of select_best_model over the available models of the category:
\* best is "None" while best_score is still -inf
RECURSIVE BestLoop(_, _, _, _)
BestLoop(registry, candidates, best_model, best_score) ==
    IF candidates = <<>> THEN best_model
    ELSE LET name == Head(candidates)
             score == Score(registry[name])
         IN  IF best_model = "None" \/ Better(score, best_score)
             THEN BestLoop(registry, Tail(candidates), name, score)
             ELSE BestLoop(registry, Tail(candidates), best_model, best_score)

\* the list comprehension of select_best_model
AvailableIn(registry, category) ==
    SelectSeq(CategoryModels(category), LAMBDA m : registry[m].available)

\* A selection that returns None when nothing can be chosen.
NoFallback == "None"

\* the fallback select_best_model returns when nothing can be chosen
DefaultFallback == "rembg"

select_best_model(registry, operation, model) ==
    IF model # "None" /\ is_model_available(registry, model)
    THEN model
    ELSE LET category == operation_mapping(operation)
         IN  IF category = "None" \/ category \notin Categories
             THEN DefaultFallback
             ELSE IF AvailableIn(registry, category) = <<>>
                  THEN DefaultFallback
                  ELSE LET best_model ==
                               BestLoop(registry, AvailableIn(registry, category), "None", 0)
                       IN  IF best_model = "None" THEN DefaultFallback ELSE best_model

\* the operation names a request may carry: those of operation_mapping and
\* one it does not know
Operations ==
    {"remove_background", "background_removal", "upscale", "upscaling",
     "upscale_2x", "upscale_4x", "generate", "restore"}

\* the model a request may name: none, a registered one, an unregistered one
RequestedModels == {"None", "unknown_model"} \cup ModelNames

\* a request that has not been answered yet
Pending == "pending"

NoSelection == [operation |-> "None", model |-> "None", result |-> Pending]

\* one call of select_best_model, for the request at hand
Select ==
    /\ selection.result = Pending
    /\ selection.operation # "None"
    /\ selection' = [selection EXCEPT !.result =
                        select_best_model(available_models, selection.operation,
                                          selection.model)]
    /\ UNCHANGED <<available_models, lifecycleVars, routingVars, processVars>>

(***************************************************************************)
(* app/core/ai_services.py: routing between self-hosted and commercial     *)
(* services.  A service path "type.model_name" is kept as its type and     *)
(* the "_"-separated words of its model name, so that the splits of        *)
(* _is_service_available are computed, not assumed.                        *)
(***************************************************************************)
MaxRuns == 1

Path(type, name) == [type |-> type, name |-> name]

NoPath == Path("None", <<>>)

\* the keys under which initialize() registers the service objects
Services == {"background_removal", "image_upscaling", "image_generation",
             "commercial_apis"}

RoutedOperations == {"background_removal", "image_upscaling", "image_generation"}

\* initialize(): self.routing_config
routing_config(operation) ==
    CASE operation = "background_removal" ->
           [primary |-> Path("self_hosted", <<"rembg", "u2net">>),
            fallback |-> <<Path("self_hosted", <<"rembg", "birefnet">>),
                           Path("commercial", <<"remove", "bg">>)>>,
            cost_threshold |-> 1000, performance_threshold |-> 10]
      [] operation = "image_upscaling" ->
           [primary |-> Path("self_hosted", <<"realesrgan", "x4">>),
            fallback |-> <<Path("self_hosted", <<"realesrgan", "anime">>)>>,
            cost_threshold |-> 500, performance_threshold |-> 15]
      [] operation = "image_generation" ->
           [primary |-> Path("self_hosted", <<"stable", "diffusion", "xl">>),
            fallback |-> <<Path("commercial", <<"openai", "dalle">>),
                           Path("commercial", <<"stability", "ai">>)>>,
            cost_threshold |-> 100, performance_threshold |-> 30]

ServicePaths ==
    UNION {{routing_config(o).primary} \cup Range(routing_config(o).fallback) :
           o \in RoutedOperations}

CommercialNames == {p.name : p \in {q \in ServicePaths : q.type = "commercial"}}

\* healthy holds what the health checks answer at one moment: the service
\* objects whose health_check() is True, and the API names for which the
\* commercial service's health_check(model_name) is True

\* _is_service_available under the health checks' answers health.  A path
\* that is None makes split raise: False
is_service_available(health, service_path) ==
    IF service_path = NoPath THEN FALSE
    ELSE IF service_path.type = "self_hosted"
         THEN LET service_name == Head(service_path.name)
              IN  service_name \in Services /\ service_name \in health.services
         ELSE IF service_path.type = "commercial"
              THEN "commercial_apis" \in Services /\ service_path.name \in health.apis
              ELSE FALSE

NoMetrics == [total_time |-> 0, operation_count |-> 0]

\* avg_time > performance_threshold, with avg_time = total_time / operation_count
\* and 0 for a service without metrics
TooSlow(metrics, threshold) ==
    /\ metrics.operation_count > 0
    /\ metrics.total_time > threshold * metrics.operation_count

\* cost_tracker is never written: the operations_count read from it is 0
current_usage == 0

\* the primary service taken without any of the checks
always_use_primary_service(metrics, health, operation, primary_service, options) ==
    TRUE

\* _should_use_primary_service
should_use_primary_service(metrics, health, operation, primary_service, options) ==
    IF operation \in RoutedOperations
       /\ current_usage >= routing_config(operation).cost_threshold
    THEN FALSE
    ELSE IF operation \in RoutedOperations
            /\ TooSlow(metrics[primary_service],
                       routing_config(operation).performance_threshold)
         THEN FALSE
         ELSE IF ~is_service_available(health, primary_service)
              THEN FALSE
              ELSE IF options.force_commercial
                   THEN primary_service.type = "commercial"
                   ELSE IF options.force_self_hosted
                        THEN primary_service.type = "self_hosted"
                        ELSE TRUE

\* the loop without its return: the last available fallback service wins
RECURSIVE LastAvailable(_, _, _)
LastAvailable(health, fallback_services, default) ==
    IF fallback_services = <<>> THEN default
    ELSE LET rest == LastAvailable(health, Tail(fallback_services), default)
         IN  IF rest # default \/ ~is_service_available(health, Head(fallback_services))
             THEN rest
             ELSE Head(fallback_services)

\* the loop of _get_optimal_service over the fallback services
RECURSIVE FirstAvailable(_, _, _)
FirstAvailable(health, fallback_services, default) ==
    IF fallback_services = <<>> THEN default
    ELSE IF is_service_available(health, Head(fallback_services))
         THEN Head(fallback_services)
         ELSE FirstAvailable(health, Tail(fallback_services), default)

\* _get_optimal_service
get_optimal_service(metrics, health, operation, options) ==
    LET primary_service == IF operation \in RoutedOperations
                           THEN routing_config(operation).primary ELSE NoPath
        fallback_services == IF operation \in RoutedOperations
                             THEN routing_config(operation).fallback ELSE <<>>
    IN  IF should_use_primary_service(metrics, health, operation, primary_service, options)
        THEN primary_service
        ELSE FirstAvailable(health, fallback_services, primary_service)

\* _update_metrics
update_metrics(metrics, service_path, processing_time) ==
    [metrics EXCEPT ![service_path] =
        [total_time |-> @.total_time + processing_time,
         operation_count |-> @.operation_count + 1]]

\* _execute_operation can run the operation on the service path: the
\* self-hosted branch knows the three operations, the commercial branch
\* these pairs of operation and API
Executable(operation, service_path) ==
    \/ service_path.type = "self_hosted" /\ operation \in RoutedOperations
    \/ /\ service_path.type = "commercial"
       /\ \/ operation = "background_removal" /\ service_path.name = <<"remove", "bg">>
          \/ operation = "image_generation" /\ service_path.name = <<"openai", "dalle">>
          \/ operation = "image_generation" /\ service_path.name = <<"stability", "ai">>

NoOptions == [force_commercial |-> FALSE, force_self_hosted |-> FALSE]

NoRouted == [operation |-> "None", options |-> NoOptions, result |-> NoPath,
             available |-> FALSE, outcome |-> "None"]

RoutingRequests == RoutedOperations \cup {"restore"}

OptionSets == [force_commercial : BOOLEAN, force_self_hosted : BOOLEAN]

\* the processing times a service reports, in seconds
ProcessingTimes == {2, 40}

\* the operations run so far, over all services
TotalRuns ==
    LET count(o) ==
            performance_metrics[routing_config(o).primary].operation_count
            + performance_metrics[routing_config(o).fallback[1]].operation_count
            + IF Len(routing_config(o).fallback) > 1
              THEN performance_metrics[routing_config(o).fallback[2]].operation_count
              ELSE 0
    IN  count("background_removal") + count("image_upscaling")
        + count("image_generation")

\* what one call of _get_optimal_service returns, with the answer of
\* _is_service_available for the returned path at that moment; outcome
\* tells how _execute_operation ended on that path, if it was called
Routed(operation, options) ==
    LET result == get_optimal_service(performance_metrics, healthy, operation, options)
    IN  [operation |-> operation, options |-> options, result |-> result,
         available |-> is_service_available(healthy, result), outcome |-> "None"]

\* one call of _get_optimal_service
Route(operation, options) ==
    /\ routed' = Routed(operation, options)
    /\ UNCHANGED <<healthy, performance_metrics, lifecycleVars, selectionVars, processVars>>

\* one round of the loop of process_image: the service is chosen, the
\* operation runs on it and reports its time, the metrics are updated
ProcessOperation(operation, options, processing_time) ==
    /\ TotalRuns < MaxRuns
    /\ LET call == Routed(operation, options)
       IN  /\ Executable(operation, call.result)
           /\ routed' = [call EXCEPT !.outcome = "success"]
           /\ performance_metrics' =
                  update_metrics(performance_metrics, call.result, processing_time)
    /\ UNCHANGED <<healthy, lifecycleVars, selectionVars, processVars>>

\* one round of the loop of process_image in which _execute_operation
\* raises (the service failed, or knows no such operation): the except
\* branch of process_image returns success False; _update_metrics is not
\* reached and no other service is tried
ProcessOperationFails(operation, options) ==
    /\ routed' = [Routed(operation, options) EXCEPT !.outcome = "failure"]
    /\ UNCHANGED <<healthy, performance_metrics, lifecycleVars, selectionVars,
                   processVars>>

\* a health check changes its answer: a service object goes up or down
ServiceHealthChanges(service) ==
    /\ healthy' = [healthy EXCEPT !.services =
                      IF service \in @ THEN @ \ {service} ELSE @ \cup {service}]
    /\ routed' = NoRouted
    /\ UNCHANGED <<performance_metrics, lifecycleVars, selectionVars, processVars>>

\* a commercial API becomes reachable or unreachable
ApiHealthChanges(api) ==
    /\ healthy' = [healthy EXCEPT !.apis =
                      IF api \in @ THEN @ \ {api} ELSE @ \cup {api}]
    /\ routed' = NoRouted
    /\ UNCHANGED <<performance_metrics, lifecycleVars, selectionVars, processVars>>

(***************************************************************************)
(* ai_services.py: AIServiceOrchestrator.process_image, one request.       *)
(*                                                                         *)
(* The coroutine is cut at its awaits.  Work handed to run_in_executor     *)
(* runs on a thread of its own: when asyncio.wait_for gives up, the        *)
(* coroutine goes on and the thread keeps running until its function       *)
(* ends.  output_file names whoever wrote the output path last.            *)
(***************************************************************************)
Orchestrators == {"ai_services", "modular_ai_services"}

NoResult == [status |-> "None", model_used |-> "None",
             model_attempted |-> "None", error |-> "None"]

\* the dict process_image returns at its end
SuccessResult(model_used) ==
    [status |-> "success", model_used |-> model_used,
     model_attempted |-> "None", error |-> "None"]

\* the dict of the outer except branch: "model_attempted": model or "auto"
ErrorResult(error, model) ==
    [status |-> "error", model_used |-> "None",
     model_attempted |-> IF model = "None" THEN "auto" ELSE model,
     error |-> error]

\* one attempt of a request: who ran, how it ended (returned, raised,
\* deadline, import) and the message the caller of the attempt received
Attempt(candidate, event, outcome) ==
    [candidate |-> candidate, event |-> event, outcome |-> outcome]

NoJob == [operation |-> "None", model |-> "None"]

NoExecutor == [state |-> "idle", work |-> "None", awaited |-> FALSE]

\* loop.run_in_executor(None, process_sync), awaited by the coroutine
Submitted(work) == [state |-> "running", work |-> work, awaited |-> TRUE]

\* _process_background_removal: except Exception
BackgroundRemovalFailed == "Background removal failed"

\* A timeout branch that raises the message of the failure branch.
TimedOutRaisedAsFailed == "Background removal failed"

\* _process_background_removal: except asyncio.TimeoutError
BackgroundRemovalTimedOut == "Background removal timed out"

\* _process_background_removal: except ImportError re-raises
RembgNotInstalled == "rembg library not installed or compatible"

\* _process_upscaling wraps whatever _enhanced_intelligent_upscaling raised
UpscalingFailed == "Upscaling failed"

\* shutil.copy2 raised
CopyFailed == "copy failed"

\* _get_model_config finds the model in a category of the registry
model_config_found(model_name) == model_name \in ModelNames

\* "realesrgan" in selected_model
IsRealesrgan(model_name) ==
    model_name \in {"realesrgan_2x", "realesrgan_4x", "realesrgan_8x",
                    "realesrgan_anime", "realesrgan_face"}

\* the fallbacks of process_image, which carry no registry name
SimulatedRemoval == "_simulate_background_removal"
CopyOriginal == "shutil.copy2"

AiUnchanged == UNCHANGED <<orchestrator, job, installed, broken, lifecycleVars,
                           selectionVars, routingVars>>

\* process_image from its entry to the await of asyncio.sleep
AiProcessImage ==
    /\ orchestrator = "ai_services"
    /\ ppc = "called"
    /\ LET selected == select_best_model(available_models, job.operation, job.model)
       IN  /\ selected_model' = selected
           /\ IF ~model_config_found(selected)
              THEN /\ process_result' = ErrorResult("Model not found", job.model)
                   /\ ppc' = "returned"
              ELSE /\ ppc' = "sleep"
                   /\ UNCHANGED process_result
    /\ UNCHANGED <<attempts, executor, output_file>>
    /\ AiUnchanged

\* after the sleep: the branch on the operation, up to the next await or to
\* the return.  shutil.copy2 is synchronous and either writes or raises.
AiDispatch(copied) ==
    /\ orchestrator = "ai_services"
    /\ ppc = "sleep"
    /\ IF job.operation = "background_removal"
       THEN IF "rembg" \in installed
            THEN /\ executor' = Submitted(selected_model)
                 /\ ppc' = "wait_for_rembg"
                 /\ UNCHANGED <<attempts, output_file, process_result>>
            ELSE /\ attempts' = Append(attempts,
                        Attempt(selected_model, "import", RembgNotInstalled))
                 /\ ppc' = "simulate"
                 /\ UNCHANGED <<executor, output_file, process_result>>
       ELSE IF job.operation \in {"upscaling", "upscale"} /\ IsRealesrgan(selected_model)
            THEN /\ executor' = Submitted(selected_model)
                 /\ ppc' = "wait_for_upscaling"
                 /\ UNCHANGED <<attempts, output_file, process_result>>
            ELSE /\ ppc' = "returned"
                 /\ UNCHANGED executor
                 /\ IF copied
                    THEN /\ attempts' = Append(attempts,
                                Attempt(selected_model, "returned", "success"))
                         /\ output_file' = selected_model
                         /\ process_result' = SuccessResult(selected_model)
                    ELSE /\ attempts' = Append(attempts,
                                Attempt(selected_model, "raised", CopyFailed))
                         /\ process_result' = ErrorResult(CopyFailed, job.model)
                         /\ UNCHANGED output_file
    /\ UNCHANGED selected_model
    /\ AiUnchanged

\* process_sync wrote the output and returned True before the deadline
AiRembgDone ==
    /\ orchestrator = "ai_services"
    /\ ppc = "wait_for_rembg"
    /\ executor.state = "running"
    /\ executor' = [executor EXCEPT !.state = "done", !.awaited = FALSE]
    /\ attempts' = Append(attempts, Attempt(selected_model, "returned", "success"))
    /\ output_file' = selected_model
    /\ process_result' = SuccessResult(selected_model)
    /\ ppc' = "returned"
    /\ UNCHANGED selected_model
    /\ AiUnchanged

\* process_sync raised before the deadline: except Exception of
\* _process_background_removal, then the except branch of process_image
AiRembgRaises ==
    /\ orchestrator = "ai_services"
    /\ ppc = "wait_for_rembg"
    /\ executor.state = "running"
    /\ executor' = [executor EXCEPT !.state = "done", !.awaited = FALSE]
    /\ attempts' = Append(attempts,
                      Attempt(selected_model, "raised", BackgroundRemovalFailed))
    /\ ppc' = "simulate"
    /\ UNCHANGED <<selected_model, output_file, process_result>>
    /\ AiUnchanged

\* the 60 seconds of asyncio.wait_for pass: the coroutine gets TimeoutError,
\* the thread keeps running process_sync
AiRembgTimesOut ==
    /\ orchestrator = "ai_services"
    /\ ppc = "wait_for_rembg"
    /\ executor.state = "running"
    /\ executor' = [executor EXCEPT !.awaited = FALSE]
    /\ attempts' = Append(attempts,
                      Attempt(selected_model, "deadline", BackgroundRemovalTimedOut))
    /\ ppc' = "simulate"
    /\ UNCHANGED <<selected_model, output_file, process_result>>
    /\ AiUnchanged

\* _simulate_background_removal ends: one of its branches wrote the output
\* (written), or its last shutil.copy2 raised
AiSimulateEnds(written) ==
    /\ orchestrator = "ai_services"
    /\ ppc = "simulate"
    /\ ppc' = "returned"
    /\ IF written
       THEN /\ attempts' = Append(attempts,
                              Attempt(SimulatedRemoval, "returned", "success"))
            /\ output_file' = SimulatedRemoval
            /\ process_result' = SuccessResult(selected_model)
       ELSE /\ attempts' = Append(attempts,
                              Attempt(SimulatedRemoval, "raised", CopyFailed))
            /\ process_result' = ErrorResult(CopyFailed, job.model)
            /\ UNCHANGED output_file
    /\ UNCHANGED <<selected_model, executor>>
    /\ AiUnchanged

\* _enhanced_intelligent_upscaling: process_sync returned True in time
AiUpscalingDone ==
    /\ orchestrator = "ai_services"
    /\ ppc = "wait_for_upscaling"
    /\ executor.state = "running"
    /\ executor' = [executor EXCEPT !.state = "done", !.awaited = FALSE]
    /\ attempts' = Append(attempts, Attempt(selected_model, "returned", "success"))
    /\ output_file' = selected_model
    /\ process_result' = SuccessResult(selected_model)
    /\ ppc' = "returned"
    /\ UNCHANGED selected_model
    /\ AiUnchanged

\* _enhanced_intelligent_upscaling: process_sync returned False (raised) or
\* the 300 seconds passed (deadline); one except branch serves both, then
\* process_image copies the input
AiUpscalingFails(event, copied) ==
    /\ orchestrator = "ai_services"
    /\ ppc = "wait_for_upscaling"
    /\ executor.state = "running"
    /\ executor' = IF event = "deadline"
                   THEN [executor EXCEPT !.awaited = FALSE]
                   ELSE [executor EXCEPT !.state = "done", !.awaited = FALSE]
    /\ ppc' = "returned"
    /\ LET failed == Append(attempts, Attempt(selected_model, event, UpscalingFailed))
       IN  IF copied
           THEN /\ attempts' = Append(failed, Attempt(CopyOriginal, "returned", "success"))
                /\ output_file' = CopyOriginal
                /\ process_result' = SuccessResult(selected_model)
           ELSE /\ attempts' = Append(failed, Attempt(CopyOriginal, "raised", CopyFailed))
                /\ process_result' = ErrorResult(CopyFailed, job.model)
                /\ UNCHANGED output_file
    /\ UNCHANGED selected_model
    /\ AiUnchanged

\* the function of a thread nobody awaits any more comes to its end: it
\* wrote the output path (written) or raised before writing
OrphanEnds(written) ==
    /\ executor.state = "running"
    /\ ~executor.awaited
    /\ executor' = [executor EXCEPT !.state = "done"]
    /\ output_file' = IF written THEN executor.work ELSE output_file
    /\ UNCHANGED <<ppc, selected_model, attempts, process_result>>
    /\ AiUnchanged

(***************************************************************************)
(* modular_ai_services.py: ModularAIOrchestrator.process_image with the    *)
(* modules it calls, BackgroundRemover.remove_background (synchronous)     *)
(* and UpscalerEngine.upscale_image.  photo_restoration is left out.       *)
(*                                                                         *)
(* timeout_wrapper submits the function to a ThreadPoolExecutor opened     *)
(* by a with statement and waits for future.process_result(timeout).  When the     *)
(* wait times out, TimeoutError is raised inside the with block, whose     *)
(* exit calls executor.shutdown(wait=True): the wrapper hands the          *)
(* TimeoutError to its caller only after the function has ended.           *)
(***************************************************************************)
\* BackgroundRemover.__init__: the methods with their quality, in insertion
\* order; rembg is available when its import succeeds
BgMethods == <<"rembg", "grabcut", "threshold">>

BgQuality(method) ==
    CASE method = "rembg" -> 9
      [] method = "grabcut" -> 6
      [] method = "threshold" -> 4

\* get_available_methods
get_available_methods(libs) ==
    SelectSeq(BgMethods, LAMBDA m : m # "rembg" \/ "rembg" \in libs)

\* _select_best_method: max over the available methods by quality, the
\* first of equal quality
select_best_method(libs) ==
    LET available == get_available_methods(libs)
    IN  IF available = <<>> THEN "threshold"
        ELSE available[CHOOSE i \in 1..Len(available) :
                 \A j \in 1..Len(available) :
                    \/ BgQuality(available[j]) < BgQuality(available[i])
                    \/ BgQuality(available[j]) = BgQuality(available[i]) /\ i <= j]

\* remove_background: the method that runs for the method asked for
removal_method(libs, method) ==
    LET chosen == IF method = "auto" THEN select_best_method(libs) ELSE method
    IN  IF chosen = "rembg" /\ "rembg" \in libs THEN "rembg"
        ELSE IF chosen = "grabcut" THEN "grabcut"
        ELSE IF chosen = "threshold" THEN "threshold"
        ELSE "grabcut"

\* the models of UpscalerEngine served by a PIL method of their own
PilModels == {"super_enhanced_4x", "enhanced_pro_4x", "super_enhanced_2x",
              "enhanced_pro_2x", "enhanced_4x", "enhanced_2x",
              "lanczos_2x", "lanczos_4x", "bicubic_2x", "bicubic_4x"}

\* UpscalerEngine._select_best_model: super_enhanced_4x is always available
upscaler_select_best_model == "super_enhanced_4x"

\* upscale_image: the method that runs for the model asked for
upscale_method(libs, model) ==
    LET chosen == IF model = "auto" THEN upscaler_select_best_model ELSE model
    IN  IF IsRealesrgan(chosen) /\ "realesrgan" \in libs THEN chosen
        ELSE IF chosen \in PilModels THEN chosen
        ELSE "super_enhanced_4x"

\* timeout_wrapper: raise TimeoutError(...)
OperationTimedOut == "Operation timed out"

\* model or 'auto'
OrAuto(model) == IF model = "None" THEN "auto" ELSE model

ModUnchanged == UNCHANGED <<orchestrator, job, installed, broken, selected_model,
                            lifecycleVars, selectionVars, routingVars>>

ModuleNames == {"background_remover", "upscaler", "photo_restoration"}

\* _initialize_modules: the keys of self.modules it leaves when the
\* constructors of the modules in raising raise.  One try holds the three
\* constructions and its except branch empties self.modules.
initialize_modules(raising) == IF raising = {} THEN ModuleNames ELSE {}

\* self.modules of the orchestrator that serves the request
modules == initialize_modules(broken)

ModuleNotAvailable(module) ==
    CASE module = "background_remover" -> "Background Remover module not available"
      [] module = "upscaler" -> "Upscaler Engine module not available"

\* process_image for background_removal: remove_background runs to its end
\* inside the call; the one method it runs returns True (removed) or False
ModRemoveBackground(removed) ==
    /\ orchestrator = "modular_ai_services"
    /\ ppc = "called"
    /\ job.operation = "background_removal"
    /\ LET method == removal_method(installed, OrAuto(job.model))
       IN  IF "background_remover" \notin modules
           THEN /\ process_result' =
                      ErrorResult(ModuleNotAvailable("background_remover"), job.model)
                /\ UNCHANGED <<attempts, output_file>>
           ELSE IF removed
           THEN /\ attempts' = Append(attempts, Attempt(method, "returned", "success"))
                /\ output_file' = method
                /\ process_result' = SuccessResult(OrAuto(job.model))
           ELSE /\ attempts' = Append(attempts,
                                  Attempt(method, "raised", BackgroundRemovalFailed))
                /\ process_result' = ErrorResult(BackgroundRemovalFailed, job.model)
                /\ UNCHANGED output_file
    /\ ppc' = "returned"
    /\ UNCHANGED executor
    /\ ModUnchanged

\* process_image for upscaling, to the first await of upscale_image
ModUpscale ==
    /\ orchestrator = "modular_ai_services"
    /\ ppc = "called"
    /\ job.operation = "upscaling"
    /\ IF "upscaler" \notin modules
       THEN /\ process_result' = ErrorResult(ModuleNotAvailable("upscaler"), job.model)
            /\ ppc' = "returned"
            /\ UNCHANGED executor
       ELSE LET method == upscale_method(installed, OrAuto(job.model))
            IN  /\ executor' = Submitted(method)
                /\ ppc' = IF IsRealesrgan(method) THEN "realesrgan" ELSE "pil"
                /\ UNCHANGED process_result
    /\ UNCHANGED <<attempts, output_file>>
    /\ ModUnchanged

\* process_image for any other operation: raise Exception("Unknown operation")
ModUnknownOperation ==
    /\ orchestrator = "modular_ai_services"
    /\ ppc = "called"
    /\ job.operation \notin {"background_removal", "upscaling"}
    /\ process_result' = ErrorResult("Unknown operation", job.model)
    /\ ppc' = "returned"
    /\ UNCHANGED <<attempts, executor, output_file>>
    /\ ModUnchanged

\* _realesrgan_upscale: process_sync returned True within the 90 seconds
ModRealesrganDone ==
    /\ ppc = "realesrgan"
    /\ executor.state = "running"
    /\ executor' = [executor EXCEPT !.state = "done", !.awaited = FALSE]
    /\ attempts' = Append(attempts, Attempt(executor.work, "returned", "success"))
    /\ output_file' = executor.work
    /\ process_result' = SuccessResult(OrAuto(job.model))
    /\ ppc' = "returned"
    /\ ModUnchanged

\* _realesrgan_upscale: process_sync raised within the 90 seconds; the
\* except branch starts _super_enhanced_pil_upscale
ModRealesrganRaises ==
    /\ ppc = "realesrgan"
    /\ executor.state = "running"
    /\ attempts' = Append(attempts, Attempt(executor.work, "raised", UpscalingFailed))
    /\ executor' = Submitted("super_enhanced_4x")
    /\ ppc' = "pil"
    /\ UNCHANGED <<output_file, process_result>>
    /\ ModUnchanged

\* timeout_wrapper: future.process_result(timeout) raises after 90 seconds; the exit
\* of the with block waits for the function
ModDeadlinePasses ==
    /\ ppc = "realesrgan"
    /\ executor.state = "running"
    /\ ppc' = "shutdown"
    /\ UNCHANGED <<attempts, executor, output_file, process_result>>
    /\ ModUnchanged

\* the function ends after the deadline, having written the output
\* (written) or not: shutdown returns, TimeoutError reaches
\* _realesrgan_upscale, whose except branch starts
\* _super_enhanced_pil_upscale
ModShutdownReturns(written) ==
    /\ ppc = "shutdown"
    /\ executor.state = "running"
    /\ attempts' = Append(attempts, Attempt(executor.work, "deadline", OperationTimedOut))
    /\ output_file' = IF written THEN executor.work ELSE output_file
    /\ executor' = Submitted("super_enhanced_4x")
    /\ ppc' = "pil"
    /\ UNCHANGED process_result
    /\ ModUnchanged

\* a PIL method's process_sync returns True (upscaled) or False
ModPilEnds(upscaled) ==
    /\ ppc = "pil"
    /\ executor.state = "running"
    /\ executor' = [executor EXCEPT !.state = "done", !.awaited = FALSE]
    /\ ppc' = "returned"
    /\ IF upscaled
       THEN /\ attempts' = Append(attempts, Attempt(executor.work, "returned", "success"))
            /\ output_file' = executor.work
            /\ process_result' = SuccessResult(OrAuto(job.model))
       ELSE /\ attempts' = Append(attempts, Attempt(executor.work, "raised", UpscalingFailed))
            /\ process_result' = ErrorResult("Image upscaling failed", job.model)
            /\ UNCHANGED output_file
    /\ ModUnchanged

(***************************************************************************)
(* Specifications                                                          *)
(***************************************************************************)
InitLifecycle ==
    /\ task_storage = EmptyStore
    /\ active_connections = NoConnections
    /\ tasks = EmptyStore
    /\ connections = NoConnections
    /\ pc = [t \in TaskIds |-> "none"]
    /\ running = 0
    /\ ws_task = [s \in SocketIds |-> 0]
    /\ ws_state = [s \in SocketIds |-> "idle"]
    /\ last_push = NoPush
    /\ response = NoResponse

InitSelection ==
    /\ available_models = SourceRegistry
    /\ selection = NoSelection

NoHealth == [services |-> {}, apis |-> {}]

InitRouting ==
    /\ healthy = NoHealth
    /\ performance_metrics = [p \in ServicePaths |-> NoMetrics]
    /\ routed = NoRouted

(***************************************************************************)
(* One request to process_image of either orchestrator: the registry, the  *)
(* installed libraries and the request are drawn at the start.             *)
(***************************************************************************)
\* the registry of the source under these availability assignments: rembg
\* and remove_bg_api each way, the upscalers all available, all but
\* realesrgan_2x, or none
ProcessRegistries ==
    {[m \in ModelNames |->
        [SourceRegistry[m] EXCEPT !.available =
            IF m = "rembg" THEN rembg
            ELSE IF m = "remove_bg_api" THEN api
            ELSE IF IsRealesrgan(m) THEN m \in upscalers
            ELSE @]] :
        rembg \in BOOLEAN, api \in BOOLEAN,
        upscalers \in {{"realesrgan_2x", "realesrgan_4x", "realesrgan_8x",
                        "realesrgan_anime", "realesrgan_face"},
                       {"realesrgan_4x", "realesrgan_8x",
                        "realesrgan_anime", "realesrgan_face"},
                       {}}}

ProcessOperations == {"background_removal", "upscaling", "restore"}

ProcessModels == {"None", "rembg", "realesrgan_4x", "grabcut", "lanczos_4x"}

Libraries == {"rembg", "realesrgan"}

\* the modules whose constructor lets an exception out: BackgroundRemover
\* (its _check_rembg catches three exception types only), and
\* PhotoRestorationEngine (models_dir.mkdir); UpscalerEngine catches all
RaisingConstructors == {"background_remover", "photo_restoration"}

InitProcess ==
    /\ orchestrator = "ai_services"
    /\ job = NoJob
    /\ installed = {}
    /\ broken = {}
    /\ ppc = "idle"
    /\ selected_model = "None"
    /\ attempts = <<>>
    /\ executor = NoExecutor
    /\ output_file = "None"
    /\ process_result = NoResult

InitProcessImage ==
    /\ server = "main_advanced"
    /\ InitLifecycle
    /\ selection = NoSelection
    /\ InitRouting
    /\ orchestrator \in Orchestrators
    /\ available_models \in ProcessRegistries
    /\ installed \in SUBSET Libraries
    /\ broken \in (IF orchestrator = "modular_ai_services"
                   THEN SUBSET RaisingConstructors ELSE {{}})
    /\ \E operation \in ProcessOperations, model \in ProcessModels :
          job = [operation |-> operation, model |-> model]
    /\ ppc = "called"
    /\ selected_model = "None"
    /\ attempts = <<>>
    /\ executor = NoExecutor
    /\ output_file = "None"
    /\ process_result = NoResult

NextProcessImage ==
    \/ AiProcessImage
    \/ \E copied \in BOOLEAN : AiDispatch(copied)
    \/ AiRembgDone
    \/ AiRembgRaises
    \/ AiRembgTimesOut
    \/ \E written \in BOOLEAN : AiSimulateEnds(written)
    \/ AiUpscalingDone
    \/ \E event \in {"raised", "deadline"}, copied \in BOOLEAN :
          AiUpscalingFails(event, copied)
    \/ \E written \in BOOLEAN : OrphanEnds(written)
    \/ \E removed \in BOOLEAN : ModRemoveBackground(removed)
    \/ ModUpscale
    \/ ModUnknownOperation
    \/ ModRealesrganDone
    \/ ModRealesrganRaises
    \/ ModDeadlinePasses
    \/ \E written \in BOOLEAN : ModShutdownReturns(written)
    \/ \E upscaled \in BOOLEAN : ModPilEnds(upscaled)

SpecProcessImage == InitProcessImage /\ [][NextProcessImage]_vars

\* either server after start-up
Init ==
    /\ server \in Servers
    /\ InitLifecycle
    /\ InitSelection
    /\ InitRouting
    /\ InitProcess

Next ==
    \/ \E t \in TaskIds :
          \/ Submit(t)
          \/ GetStatus(t)
          \/ AdvStart(t)
          \/ AdvInitialize(t)
          \/ AdvModelReady(t)
          \/ AdvModelMissing(t)
          \/ AdvProcess(t)
          \/ AdvExecutorDone(t)
          \/ AdvExecutorFailed(t)
          \/ AdvComplete(t)
          \/ NrImageLoaded(t)
          \/ NrImageUnreadable(t)
          \/ NrModelLoaded(t)
          \/ NrModelFailed(t)
          \/ NrEnhanced(t)
          \/ NrEnhanceFailed(t)
          \/ NrFaceDone(t)
          \/ NrSaved(t)
          \/ NrSaveFailed(t)
          \/ NrComplete(t)
          \/ NrFail(t)
    \/ \E s \in SocketIds :
          \/ \E t \in TaskIds : WsConnect(s, t)
          \/ WsPeerLeaves(s)
          \/ WsEndpointExit(s)

Spec == Init /\ [][Next]_vars

(***************************************************************************)
(* select_best_model as a function of the registry and the request.  The   *)
(* registry keeps the source's models, categories and order; every         *)
(* availability assignment is tried, with the source's cost, speed and     *)
(* quality or with those of TiedRegistry, in which equal scores occur.     *)
(***************************************************************************)
\* the source's registry, except that realesrgan_4x and realesrgan_face carry
\* the cost, speed and quality of realesrgan_anime
TiedRegistry ==
    [m \in ModelNames |->
        IF m \in {"realesrgan_4x", "realesrgan_face"}
        THEN SourceRegistry["realesrgan_anime"] ELSE SourceRegistry[m]]

Registries ==
    {[m \in ModelNames |-> [table[m] EXCEPT !.available = available[m]]] :
        table \in {SourceRegistry, TiedRegistry},
        available \in [ModelNames -> BOOLEAN]}

InitSelect ==
    /\ server = "main_advanced"
    /\ InitLifecycle
    /\ available_models \in Registries
    /\ \E operation \in Operations, model \in RequestedModels :
          selection = [operation |-> operation, model |-> model, result |-> Pending]
    /\ InitRouting
    /\ InitProcess

NextSelect == Select

SpecSelection == InitSelect /\ [][NextSelect]_vars

InitRoute ==
    /\ server = "main_advanced"
    /\ InitLifecycle
    /\ InitSelection
    /\ InitRouting
    /\ InitProcess

NextRoute ==
    \/ \E operation \in RoutingRequests, options \in OptionSets :
          \/ Route(operation, options)
          \/ \E processing_time \in ProcessingTimes :
                ProcessOperation(operation, options, processing_time)
          \/ ProcessOperationFails(operation, options)
    \/ \E service \in Services \ {"commercial_apis"} : ServiceHealthChanges(service)
    \/ \E api \in CommercialNames : ApiHealthChanges(api)

SpecRouting == InitRoute /\ [][NextRoute]_vars

(***************************************************************************)
(* The task lifecycle with several websockets opened for one task id.      *)
(***************************************************************************)
MaxSubscribers == 2

SubscriberIds == 1..MaxSubscribers

InitSubscribers ==
    /\ server \in Servers
    /\ task_storage = EmptyStore
    /\ active_connections = NoConnections
    /\ tasks = EmptyStore
    /\ connections = NoConnections
    /\ pc = [t \in TaskIds |-> "none"]
    /\ running = 0
    /\ ws_task = [s \in SubscriberIds |-> 0]
    /\ ws_state = [s \in SubscriberIds |-> "idle"]
    /\ last_push = NoPush
    /\ response = NoResponse
    /\ InitSelection
    /\ InitRouting
    /\ InitProcess

NextSubscribers ==
    \/ \E t \in TaskIds :
          \/ Submit(t)
          \/ GetStatus(t)
          \/ AdvStart(t)
          \/ AdvInitialize(t)
          \/ AdvModelReady(t)
          \/ AdvModelMissing(t)
          \/ AdvProcess(t)
          \/ AdvExecutorDone(t)
          \/ AdvExecutorFailed(t)
          \/ AdvComplete(t)
          \/ NrImageLoaded(t)
          \/ NrImageUnreadable(t)
          \/ NrModelLoaded(t)
          \/ NrModelFailed(t)
          \/ NrEnhanced(t)
          \/ NrEnhanceFailed(t)
          \/ NrFaceDone(t)
          \/ NrSaved(t)
          \/ NrSaveFailed(t)
          \/ NrComplete(t)
          \/ NrFail(t)
    \/ \E s \in SubscriberIds :
          \/ \E t \in TaskIds : WsConnect(s, t)
          \/ WsPeerLeaves(s)
          \/ WsEndpointExit(s)

SpecSubscribers == InitSubscribers /\ [][NextSubscribers]_vars

(***************************************************************************)
(* Properties of the task lifecycle, stated for Spec.                      *)
(*                                                                         *)
(* The specification's states Queued, Processing, Completed and Failed are *)
(* the status strings "queued", "processing", "completed" and, for Failed, *)
(* "failed" (main_advanced.py) or "error" (main_advanced_noredis.py).      *)
(***************************************************************************)
Failed(status) == status \in {"failed", "error"}

Terminal(status) == status = "completed" \/ Failed(status)

\* the background coroutine of task t has started and has not ended
Underway(t) == pc[t] \notin {"none", "scheduled", "done"}

\* C1: terminal states are absorbing.  Once the stored status of a task is
\* Completed or Failed, no step of any task, handler or websocket changes
\* that status or removes the task.
TerminalAbsorbing ==
    [][\A t \in DOMAIN Store :
          Terminal(Store[t].status) =>
              t \in DOMAIN Store' /\ Store'[t].status = Store[t].status]_vars

\* C1, its case: a task is terminal and is queried while another task is in
\* the middle of its progress callbacks.
TerminalWhileOtherRuns ==
    \E t \in DOMAIN Store, u \in DOMAIN Store :
        /\ t # u
        /\ Terminal(Store[t].status)
        /\ Underway(u) /\ Store[u].progress > 0
        /\ response.kind = "status" /\ response.task_id = t

\* C2: the stored status takes only the values Queued, Processing, Completed
\* and Failed, a new task starts Queued, the status moves only forward along
\* Queued -> Processing -> {Completed | Failed}, and so a task that becomes
\* Completed or Failed was Processing in the step before.
StatusMovesForward ==
    [][\A t \in DOMAIN Store' :
          LET new == Store'[t].status
              old == IF t \in DOMAIN Store THEN Store[t].status ELSE "None"
          IN  /\ new \in {"queued", "processing"} \/ Terminal(new)
              /\ old = "None" => new = "queued"
              /\ old = "queued" => new \in {"queued", "processing"}
              /\ old = "processing" => new = "processing" \/ Terminal(new)
              /\ Terminal(old) => new = old]_vars

\* C3: the stored progress of every task never decreases, whichever step is
\* taken (progress callbacks and final updates of the success path and of
\* every failure path).
ProgressNeverDecreases ==
    [][\A t \in DOMAIN Store :
          t \in DOMAIN Store' /\ Store'[t].progress >= Store[t].progress]_vars

\* C4: whatever a status query answers and whatever a subscriber is sent
\* with a progress in it, the progress is 100 exactly when the status is
\* Completed.
ProgressHundredIffCompleted ==
    /\ response.kind = "status" =>
          (response.body.progress = 100 <=> response.body.status = "completed")
    /\ (last_push # NoPush /\ last_push.body.progress # NoRec.progress) =>
          (last_push.body.progress = 100 <=> last_push.body.status = "completed")

\* C5: in every reachable state a task record carries a result (result or
\* result_url) only if its status is Completed, and an error only if its
\* status is Failed.
ResultOnlyCompletedErrorOnlyFailed ==
    \A t \in DOMAIN Store :
        /\ (Store[t].result # "None" \/ Store[t].result_url # "None") =>
              Store[t].status = "completed"
        /\ Store[t].error # "None" => Failed(Store[t].status)

\* C5, its case: one task has completed with its result and another has
\* failed with its error.
OneCompletedOneFailed ==
    \E t \in DOMAIN Store, u \in DOMAIN Store :
        /\ Store[t].status = "completed" /\ Store[t].result_url # "None"
        /\ Failed(Store[u].status) /\ Store[u].error # "None"

\* C6: when the submission endpoint returns a task id, the task is stored
\* with status Queued and progress 0, a status query for the id finds that
\* record, and the task's background coroutine has only been scheduled: no
\* step of it has run.
SubmitReturnsQueued ==
    response.kind = "submitted" =>
        /\ response.task_id \in DOMAIN Store
        /\ Store[response.task_id].status = "queued"
        /\ Store[response.task_id].progress = 0
        /\ response.status = "queued"
        /\ get_task_status(Store, response.task_id).response.kind = "status"
        /\ get_task_status(Store, response.task_id).response.body = Store[response.task_id]
        /\ pc[response.task_id] = "scheduled"

\* C6, its case: a submission returns while the coroutine of an earlier
\* task is in the middle of its work.
SubmittedWhileOtherRuns ==
    /\ response.kind = "submitted"
    /\ \E u \in DOMAIN Store : u # response.task_id /\ Underway(u)

\* C7: a status query is a pure read.  The step that answers one leaves
\* every task record as it was, and when the step before it answered a
\* query for the same task id, the two answers are identical.
GetStatusPureRead ==
    [][response'.kind \in {"status", "not_found"} =>
          /\ Store' = Store
          /\ (response.kind \in {"status", "not_found"}
              /\ response.task_id = response'.task_id) => response' = response]_vars

\* C7, its case: a status query has answered for a task whose coroutine is
\* in the middle of its work.
QueriedWhileUnderway ==
    /\ response.kind = "status"
    /\ Underway(response.task_id)
    /\ response.body.progress > 0

\* C21: every update pushed to a task's subscriber carries the status, the
\* progress and the message a status query for the task would return at the
\* moment of the push.
PushMatchesStatusQuery ==
    (last_push.task # 0 /\ last_push.task \in DOMAIN Store) =>
        LET answer == get_task_status(Store, last_push.task).response.body
        IN  /\ last_push.body.status = answer.status
            /\ last_push.body.progress = answer.progress
            /\ last_push.body.message = answer.message

\* the background coroutine of task t takes a step in which it sends to a
\* registered subscriber whose peer has left: the send fails
FailedSend(t) ==
    /\ pc[t] \notin {"none", "done"}
    /\ pc'[t] # pc[t]
    /\ Connected(t) # 0
    /\ ws_state[Connected(t)] # "open"

RegisteredAfter(t) ==
    IF server = "main_advanced" THEN active_connections'[t] ELSE connections'[t]

StoreAfter == IF server = "main_advanced" THEN task_storage' ELSE tasks'

\* C22: a push to a disconnected subscriber is absorbed: the failed send
\* removes the subscriber's registration, nothing is delivered, the
\* coroutine goes on and, when that was its last step, the task is in its
\* terminal state.
FailedSendAbsorbedAndPruned ==
    [][\A t \in TaskIds :
          FailedSend(t) =>
             /\ RegisteredAfter(t) = 0
             /\ last_push' = NoPush
             /\ pc'[t] = "done" => Terminal(StoreAfter[t].status)]_vars

(***************************************************************************)
(* Properties of the websocket registry, stated for SpecSubscribers.       *)
(***************************************************************************)
\* the background coroutine of task t takes a step, which sends an update
BackgroundStep(t) ==
    /\ pc[t] \notin {"none", "done"}
    /\ pc'[t] # pc[t]

\* socket s was opened for task t and its peer is still there
StillConnected(s, t) == ws_task[s] = t /\ ws_state[s] = "open"

\* another socket opened for task t has lost its peer
OtherDisconnected(s, t) ==
    \E other \in DOMAIN ws_state \ {s} :
        ws_task[other] = t /\ ws_state[other] \in {"gone", "closed"}

\* C28: when two subscribers connected to the same task id and one of them
\* disconnected, every later update of the task is still delivered to the
\* other, still-connected subscriber.
DisconnectLeavesOtherSubscribed ==
    [][\A t \in TaskIds : \A s \in DOMAIN ws_state :
          (BackgroundStep(t) /\ StillConnected(s, t) /\ OtherDisconnected(s, t)) =>
              (last_push'.socket = s /\ last_push'.task = t)]_vars

(***************************************************************************)
(* Properties of select_best_model, stated for SpecSelection.              *)
(***************************************************************************)
\* the score the specification states, quality*100 - cost*50 - speed*2,
\* times ten in the registry's units
StatedScore(config) == 10 * config.quality - 5 * config.cost - 2 * config.speed

\* the available backends of the category of the request at hand, in
\* registration order
Candidates == AvailableIn(available_models, operation_mapping(selection.operation))

\* where a backend stands in a sequence of distinct backends
Position(seq, m) == CHOOSE i \in 1..Len(seq) : seq[i] = m

Answered == selection.result # Pending

\* the request names no backend that is registered and available
NoExplicitChoice ==
    selection.model = "None" \/ ~is_model_available(available_models, selection.model)

\* C8: for an operation whose category has an available backend and a
\* request that names no backend, select_best_model returns an available
\* backend of that category whose score quality*100 - cost*50 - speed*2 no
\* other such backend exceeds, and among those of equal score the one
\* registered earliest.
SelectsHighestScoreEarliest ==
    (/\ Answered
     /\ selection.model = "None"
     /\ operation_mapping(selection.operation) \in Categories
     /\ Candidates # <<>>) =>
        /\ selection.result \in Range(Candidates)
        /\ \A j \in 1..Len(Candidates) :
              /\ StatedScore(available_models[Candidates[j]])
                    <= StatedScore(available_models[selection.result])
              /\ StatedScore(available_models[Candidates[j]])
                    = StatedScore(available_models[selection.result])
                 => Position(Candidates, selection.result) <= j

\* C8, its case: a request without a named backend was answered where a
\* backend registered later has the score of the one returned, and a
\* backend registered earlier has a lower score.
TieDecidedByRegistration ==
    /\ Answered
    /\ selection.model = "None"
    /\ operation_mapping(selection.operation) = "upscaling"
    /\ selection.result \in Range(Candidates)
    /\ \E j \in 1..Len(Candidates) :
          /\ j > Position(Candidates, selection.result)
          /\ StatedScore(available_models[Candidates[j]])
                = StatedScore(available_models[selection.result])
    /\ \E j \in 1..Len(Candidates) :
          /\ j < Position(Candidates, selection.result)
          /\ StatedScore(available_models[Candidates[j]])
                < StatedScore(available_models[selection.result])

\* the baseline the source designates: one backend, the same for every
\* category
Baseline(category) == "rembg"

NamesBackendOfCategory ==
    /\ selection.model \in ModelNames
    /\ operation_mapping(selection.operation) \in Categories
    /\ selection.model \in Range(CategoryModels(operation_mapping(selection.operation)))

\* C11: with A available and B unavailable in one category, a request of
\* that category that names no backend gets A, and a request that names B
\* explicitly gets B first (A kept behind it as fallback).  Here, for the
\* explicit half: a request that names an unavailable backend B of its
\* category, while another backend of the category is available, is
\* answered with B.
ExplicitUnavailableStillFirst ==
    (/\ Answered
     /\ NamesBackendOfCategory
     /\ ~available_models[selection.model].available
     /\ Candidates # <<>>) =>
        selection.result = selection.model

\* C12: a request that names a backend that is registered and available is
\* answered with that backend, whatever the scores of the other backends.
ExplicitAvailableIsPrimary ==
    (/\ Answered
     /\ selection.model \in ModelNames
     /\ available_models[selection.model].available) =>
        selection.result = selection.model

\* C12, its case: the named backend was returned although an available
\* backend of the operation's category has a strictly higher score.
ExplicitBeatsHigherScore ==
    /\ Answered
    /\ NamesBackendOfCategory
    /\ available_models[selection.model].available
    /\ selection.result = selection.model
    /\ \E j \in 1..Len(Candidates) :
          StatedScore(available_models[Candidates[j]])
             > StatedScore(available_models[selection.model])

\* C26: for every request (any operation, with or without an explicit
\* model), the backend select_best_model returns belongs to the category
\* the request's operation maps to.
SelectedBelongsToOperationCategory ==
    Answered =>
        get_model_category(selection.result) = operation_mapping(selection.operation)

(***************************************************************************)
(* Properties of _get_optimal_service, stated for SpecRouting.             *)
(***************************************************************************)
\* C10: no selection returns as primary a backend whose availability is
\* false.  For _get_optimal_service: the service path returned for a
\* configured operation is one _is_service_available answers True for at
\* that moment.
RoutedServiceIsAvailable ==
    routed.operation \in RoutedOperations => routed.available

\* C15: every attempt outcome is recorded in the metrics exactly once: a
\* round of process_image in which the operation ran on a service,
\* successfully or not, adds one record to the metrics of that service.
EveryAttemptRecordedOnce ==
    [][(/\ routed'.outcome \in {"success", "failure"}
        /\ routed'.result \in ServicePaths) =>
          performance_metrics'[routed'.result].operation_count
             = performance_metrics[routed'.result].operation_count + 1]_vars

\* the positions of the operation's fallback services whose availability
\* passes under the health checks' answers at hand
PassingFallbacks(operation) ==
    LET fallback_services == IF operation \in RoutedOperations
                             THEN routing_config(operation).fallback ELSE <<>>
    IN  {i \in 1..Len(fallback_services) :
            is_service_available(healthy, fallback_services[i])}

PrimaryOf(operation) ==
    IF operation \in RoutedOperations THEN routing_config(operation).primary ELSE NoPath

\* C25: _get_optimal_service returns the primary service when
\* _should_use_primary_service holds for it; otherwise the first fallback
\* service, in configured order, whose availability passes; and the primary
\* service when no fallback passes.
OptimalServiceOrder ==
    [][routed'.operation # "None" =>
         LET operation == routed'.operation
             passing == PassingFallbacks(operation)
         IN  routed'.result =
               IF should_use_primary_service(performance_metrics, healthy, operation,
                                             PrimaryOf(operation), routed'.options)
               THEN PrimaryOf(operation)
               ELSE IF passing = {} THEN PrimaryOf(operation)
                    ELSE routing_config(operation).fallback[
                             CHOOSE i \in passing : \A j \in passing : i <= j]]_vars

\* both fallback services of image generation pass and the first is returned
FirstOfTwoPassingFallbacks ==
    /\ routed.operation = "image_generation"
    /\ PassingFallbacks("image_generation") = {1, 2}
    /\ routed.result = Path("commercial", <<"openai", "dalle">>)

\* the recorded avg_time of the operation's primary service exceeds the
\* operation's performance_threshold
PrimaryTooSlow(operation) ==
    TooSlow(performance_metrics[routing_config(operation).primary],
            routing_config(operation).performance_threshold)

\* the last call of _get_optimal_service was for the operation, found some
\* fallback service available and returned the primary service
PrimaryDespiteFallback(operation) ==
    /\ routed.operation = operation
    /\ PassingFallbacks(operation) # {}
    /\ routed.result = routing_config(operation).primary

ExecutingService(operation) == operation

\* the operations whose routing configuration lists the service path
OperationsOf(service_path) ==
    {o \in RoutedOperations :
        service_path = routing_config(o).primary
        \/ service_path \in Range(routing_config(o).fallback)}

\* C30: _is_service_available reports a self-hosted service path of the
\* routing configuration available exactly when the service object that
\* executes the path's operation is registered in self.services and its
\* health check passes.
SelfHostedAvailableIffExecutorHealthy ==
    \A service_path \in {p \in ServicePaths : p.type = "self_hosted"} :
        \A operation \in OperationsOf(service_path) :
            is_service_available(healthy, service_path)
               <=> /\ ExecutingService(operation) \in Services
                   /\ ExecutingService(operation) \in healthy.services

(***************************************************************************)
(* Properties of one process_image request, stated for SpecProcessImage.   *)
(***************************************************************************)
Returned == ppc = "returned"

\* the operation belongs to a category the orchestrator at hand knows
KnownOperation ==
    IF orchestrator = "ai_services"
    THEN operation_mapping(job.operation) \in Categories
    ELSE job.operation \in {"background_removal", "upscaling"}

AttemptFailed(i) == attempts[i].outcome # "success"

\* C13: a request whose operation matches no backend category fails as an
\* unknown operation: it returns an error, no backend was selected and none
\* ran.  (process_image keeps no task store; the request is the unit.)
UnknownOperationFails ==
    (Returned /\ ~KnownOperation) =>
        /\ process_result.status = "error"
        /\ selected_model = "None"
        /\ attempts = <<>>
        /\ output_file = "None"

\* C14: when the first candidate fails and the fallback after it succeeds,
\* the request ends successful and the backend named in the result is the
\* fallback, the one that produced the output.
FallbackSuccessNamesFallback ==
    (/\ Returned
     /\ Len(attempts) = 2
     /\ AttemptFailed(1)
     /\ ~AttemptFailed(2)) =>
        /\ process_result.status = "success"
        /\ process_result.model_used = attempts[2].candidate

\* C16: if every candidate attempted for a request failed, the request
\* ends with an error whose backend id is that of the last candidate
\* attempted.
ErrorNamesLastAttempted ==
    (/\ Returned
     /\ attempts # <<>>
     /\ \A i \in 1..Len(attempts) : AttemptFailed(i)) =>
        /\ process_result.status = "error"
        /\ process_result.model_attempted = attempts[Len(attempts)].candidate

\* the messages by which a timed out attempt is told from a failed one
TimeoutOutcomes == {BackgroundRemovalTimedOut, OperationTimedOut}

\* the attempts made under the deadlines of _process_background_removal
\* (asyncio.wait_for) and of _realesrgan_upscale (timeout_wrapper)
UnderDeadline ==
    \/ orchestrator = "ai_services" /\ job.operation = "background_removal"
    \/ orchestrator = "modular_ai_services" /\ job.operation = "upscaling"

DeadlinePassed(work) ==
    \/ ppc = "shutdown" /\ executor.work = work
    \/ \E i \in 1..Len(attempts) :
          attempts[i].event = "deadline" /\ attempts[i].candidate = work

\* C18: the bounded-time wrapper returns control to its caller when the
\* deadline fires although the work has not finished: once the deadline
\* has passed, work that is still running is awaited by nobody.
DeadlineReturnsControl ==
    (executor.state = "running" /\ DeadlinePassed(executor.work)) =>
        ~executor.awaited

\* the candidates of the request whose work is in progress
InProgress ==
    (IF executor.state = "running" THEN {executor.work} ELSE {})
    \cup (IF ppc = "simulate" THEN {SimulatedRemoval} ELSE {})

\* C19: within one request the work of two different candidates is never
\* in progress at once, also after an attempt timed out and the next
\* candidate was started.
AttemptsNeverConcurrent == Cardinality(InProgress) <= 1

\* the method remove_background ran first
FirstMethod == attempts[1].candidate

\* C20: when the method chosen for a background removal fails and a weaker
\* method is available, the weaker methods are attempted in order; the
\* request is reported failed only after every available method weaker
\* than the chosen one was attempted.
WeakerMethodsTriedBeforeFailure ==
    (/\ orchestrator = "modular_ai_services"
     /\ job.operation = "background_removal"
     /\ Returned
     /\ attempts # <<>>
     /\ process_result.status = "error") =>
        \A i \in 1..Len(get_available_methods(installed)) :
           LET method == get_available_methods(installed)[i]
           IN  BgQuality(method) < BgQuality(FirstMethod) =>
                  \E j \in 1..Len(attempts) : attempts[j].candidate = method

\* the request returned success after an attempt that ran into its deadline
\* and a fallback, the last attempt, that wrote the output
ReturnedAfterTimeoutAndFallback ==
    /\ Returned
    /\ process_result.status = "success"
    /\ Len(attempts) >= 2
    /\ \E i \in 1..(Len(attempts) - 1) : attempts[i].event = "deadline"
    /\ attempts[Len(attempts)].event = "returned"
    /\ attempts[Len(attempts)].outcome = "success"

\* C27: after process_image returned success for a request in which an
\* attempt timed out and a fallback then wrote the output, what output_path
\* holds is the fallback's output: the abandoned attempt, still running,
\* never writes it again.
FallbackOutputStays ==
    ReturnedAfterTimeoutAndFallback =>
        output_file = attempts[Len(attempts)].candidate

\* process_image: the module that serves the operation
ModuleOf(operation) ==
    CASE operation = "background_removal" -> "background_remover"
      [] operation = "upscaling" -> "upscaler"

\* C23: the AI modules are independent: a failure of one module while it
\* initializes never makes a request to another module fail.  A request for
\* background removal or upscaling whose own module was constructed without
\* error is not turned down for want of that module.
OtherModuleFailureLeavesRequest ==
    (/\ orchestrator = "modular_ai_services"
     /\ Returned
     /\ job.operation \in {"background_removal", "upscaling"}
     /\ ModuleOf(job.operation) \notin broken) =>
        process_result.error # ModuleNotAvailable(ModuleOf(job.operation))

====
